---- MODULE Spec2Model ----
(***************************************************************************)
(* A state-machine model of the JOS lab 6 system-call core,               *)
(* src/lab6/kern/syscall.c: the fast-syscall entry (sysenter), the         *)
(* dispatcher and the handlers for environments, page mappings and the     *)
(* buffered IPC rendezvous.                                                *)
(*                                                                         *)
(* The handlers are translated from syscall.c.  The helpers they call     *)
(* (envid2env, env_alloc, env_destroy, env_run, sched_yield, page_alloc,   *)
(* page_lookup, page_insert, page_remove, lock_kernel, unlock_kernel) live *)
(* in kern/env.c, kern/pmap.c, kern/sched.c and kern/spinlock.h, which are *)
(* not part of src/; they are modelled from the specification's            *)
(* description of their interfaces.                                        *)
(***************************************************************************)
EXTENDS Integers, FiniteSets, Sequences, TLC

(***************************************************************************)
(* Bounds of the model.                                                    *)
(***************************************************************************)
NENV == 3        \* slots of the envs[] table (the kernel has 1024)
NCPU == 3        \* CPUs, hence envs that are RUNNING at once
NPAGES == 3      \* physical pages the page allocator manages
NUVPN == 2       \* user pages below UTOP
MaxGen == 2      \* generations of env ids handed out per slot
CallsIPC == 3    \* system calls made in one run of SpecIPC
CallsSend == 2   \* ... of SpecSend
CallsPage == 1   \* ... of SpecPage
CallsEnv == 2    \* ... of SpecEnv
CallsLock == 2   \* ... of SpecLock

(***************************************************************************)
(* Program constants defined outside syscall.c.                            *)
(***************************************************************************)
PGSIZE == 2                      \* scaled: bytes per page
UTOP == NUVPN * PGSIZE           \* top of the user-mappable address space
ULIM == UTOP + PGSIZE             \* top of what user code can read, scaled
Word == 2 * ULIM                  \* 2^32 scaled: uint32_t arithmetic is modulo Word
E_BAD_ENV == 2
E_INVAL == 3
E_NO_MEM == 4
E_NO_FREE_ENV == 5

PTE_P == "P"
PTE_W == "W"
PTE_U == "U"
PTE_AVAIL == "A"
PTE_OTHER == "X"                 \* any PTE bit outside PTE_SYSCALL (PTE_PWT, PTE_PCD, ...)
PTE_SYSCALL == {PTE_P, PTE_W, PTE_U, PTE_AVAIL}

GD_KT == 8                        \* kernel text selector
GD_KD == 16                       \* kernel data selector
GD_UT == 24                       \* user text selector
GD_UD == 32                       \* user data selector
FL_IF == "IF"                     \* eflags: interrupts enabled
FL_IOPL == "IOPL"                 \* eflags: an I/O privilege bit
FL_CF == "CF"                     \* eflags: carry

ENV_FREE == "FREE"
ENV_DYING == "DYING"
ENV_RUNNABLE == "RUNNABLE"
ENV_RUNNING == "RUNNING"
ENV_NOT_RUNNABLE == "NOT_RUNNABLE"

Slots == 0 .. (NENV - 1)
NoEnv == NENV                    \* a NULL struct Env pointer
Pages == 1 .. NPAGES
NoPage == 0                      \* a NULL struct Page pointer
NoPgdir == NENV                  \* a NULL env_pgdir
PgdirIds == 0 .. (NENV - 1)

\* The page-aligned addresses a page directory of the model can map: the user
\* pages below UTOP and the first page at UTOP.
MapVAs == {v \in 0 .. UTOP : v % PGSIZE = 0}
\* The addresses a user passes: every aligned one up to UTOP and one unaligned.
VAInputs == MapVAs \cup {1}
\* The permission masks a user passes, as sets of PTE bits (0 is {}).
PermInputs == { {PTE_U, PTE_P}, {PTE_U, PTE_P, PTE_W},
                {PTE_U, PTE_P, PTE_W, PTE_AVAIL},
                {PTE_U, PTE_W}, {PTE_P, PTE_W}, {PTE_U, PTE_P, PTE_OTHER}, {} }
Values == {7, 9}
\* A sender that passes no page (srcva >= UTOP) passes perm 0.
SendPerms(srcva) == IF srcva < UTOP THEN PermInputs ELSE {{}}

VARIABLES
    envs,      \* the envs[] table: slot -> struct Env
    pgdirs,    \* page directories: pgdir id -> (va -> mapping)
    pp_ref,    \* struct Page.pp_ref of every physical page
    page_free_list, \* the pages on the allocator's free list
    lock,      \* the big kernel lock: 1 = held
    kern,      \* the envs whose CPU is inside sysenter, past lock_kernel()
    unlocks,   \* unlock_kernel() calls made since the last lock_kernel()
    pend,      \* per env: the system call it is blocked in (its saved arguments)
    last,      \* the system call that left the kernel last, and its outcome
    budget     \* system calls the run may still enter

vars == <<envs, pgdirs, pp_ref, page_free_list, lock, kern, unlocks, pend, last, budget>>

NoMap == [pg |-> NoPage, perm |-> {}]
NoCall == [op |-> "none", envid |-> 0, value |-> 0, va |-> 0, perm |-> {}]
NoLast == [op |-> "none", caller |-> NoEnv, ret |-> 0, out |-> "none"]

\* PGOFF-free address of the page holding va (pgdir_walk ignores the offset).
PageBase(va) == va - (va % PGSIZE)

\* The frame env_alloc leaves in a new Env: zeroed registers.
ZeroTf ==
    [reg_eax |-> 0, tf_eip |-> 0, tf_cs |-> 0, tf_ds |-> 0, tf_es |-> 0, tf_ss |-> 0,
     tf_eflags |-> {}]

\* The frame of an env in user mode: user code and data selectors with
\* privilege level 3, interrupts enabled.
UserTf(eax, eip) ==
    [reg_eax |-> eax, tf_eip |-> eip, tf_cs |-> GD_UT + 3, tf_ds |-> GD_UD + 3,
     tf_es |-> GD_UD + 3, tf_ss |-> GD_UD + 3, tf_eflags |-> {FL_IF}]

\* A slot that has never held an env (the envs array is zeroed at boot).
ZeroEnv ==
    [env_id |-> 0, env_parent_id |-> 0, env_status |-> ENV_FREE,
     env_tf |-> ZeroTf, env_pgdir |-> NoPgdir, env_pgfault_upcall |-> 0,
     env_break |-> 0,
     env_ipc_recving |-> 0, env_ipc_dstva |-> 0, env_ipc_from |-> 0,
     env_ipc_value |-> 0, env_ipc_perm |-> {},
     env_ipc_pending_envid |-> 0, env_ipc_pending_value |-> 0,
     env_ipc_pending_page |-> NoPage, env_ipc_pending_perm |-> {}]

EmptyPgdir == [va \in MapVAs |-> NoMap]

(***************************************************************************)
(* kern/pmap.c.  Physical memory is handled as one record                  *)
(*   M = [pgdirs, pp_ref, page_free_list].                                 *)
(***************************************************************************)
Mem(pd, ref, fl) == [pgdirs |-> pd, pp_ref |-> ref, page_free_list |-> fl]

\* page_lookup(pgdir, va, &pte): the mapping at va, NoMap when none.
page_lookup(M, d, va) == M.pgdirs[d][PageBase(va)]

\* page_decref: drop one reference; at count zero page_free puts the page on
\* the free list.
page_decref(M, p) ==
    [M EXCEPT !.pp_ref[p] = @ - 1,
              !.page_free_list = IF M.pp_ref[p] = 1 THEN @ \cup {p} ELSE @]

\* page_remove(pgdir, va): unmap va, if mapped, and drop the page's reference.
page_remove(M, d, va) ==
    LET m == page_lookup(M, d, va) IN
    IF m.pg = NoPage
    THEN M
    ELSE page_decref([M EXCEPT !.pgdirs[d][PageBase(va)] = NoMap], m.pg)

\* page_insert(pgdir, pp, va, perm): take a reference, replace what is mapped
\* at va and enter pp with perm | PTE_P.
page_insert(M, d, p, va, perm) ==
    LET M1 == page_remove([M EXCEPT !.pp_ref[p] = @ + 1], d, va)
    IN [M1 EXCEPT !.pgdirs[d][PageBase(va)] = [pg |-> p, perm |-> perm \cup {PTE_P}]]

\* page_insert returns -E_NO_MEM when pgdir_walk has to allocate a page table
\* and cannot: no page is free and the directory holds no table yet.
PtAllocCanFail(M, d) ==
    /\ M.page_free_list = {}
    /\ \A va \in MapVAs : M.pgdirs[d][va].pg = NoPage

\* page_alloc(): page p leaves the free list (its reference count is not touched).
page_alloc(M, p) == [M EXCEPT !.page_free_list = @ \ {p}]

\* page_free(p): back on the free list.
page_free(M, p) == [M EXCEPT !.page_free_list = @ \cup {p}]

(***************************************************************************)
(* kern/env.c                                                              *)
(***************************************************************************)
RECURSIVE InParentChain(_, _, _, _)
\* Whether the env with id cid is among the ancestors of slot i.
InParentChain(E, i, cid, depth) ==
    LET pid == E[i].env_parent_id
        j == pid % NENV
    IN IF pid = cid THEN TRUE
       ELSE IF depth = 0 \/ pid = 0 THEN FALSE
       ELSE IF E[j].env_status = ENV_FREE \/ E[j].env_id # pid THEN FALSE
       ELSE InParentChain(E, j, cid, depth - 1)

\* envid2env(envid, &e, checkperm): the slot of envid, NoEnv for -E_BAD_ENV.
\* envid 0 is the caller; otherwise the slot ENVX(envid) must hold that id, and
\* with checkperm the caller must be the env or one of its ancestors.
envid2env(E, c, envid, checkperm) ==
    IF envid = 0 THEN c
    ELSE LET i == envid % NENV IN
         IF E[i].env_status = ENV_FREE \/ E[i].env_id # envid THEN NoEnv
         ELSE IF checkperm /\ i # c /\ ~InParentChain(E, i, E[c].env_id, NENV)
              THEN NoEnv
              ELSE i

\* env_free(e): drop every mapping of e's page directory, free the directory
\* and return the slot to FREE.  Only env_id outlives the env (the next
\* generation is computed from it); no other field of a FREE slot means
\* anything, and they are cleared here.
RECURSIVE UnmapAll(_, _, _)
UnmapAll(M, d, vas) ==
    IF vas = {} THEN M
    ELSE LET va == CHOOSE v \in vas : TRUE
         IN UnmapAll(page_remove(M, d, va), d, vas \ {va})

env_free(E, M, i) ==
    [envs |-> [E EXCEPT ![i] = [ZeroEnv EXCEPT !.env_id = E[i].env_id]],
     mem |-> UnmapAll(M, E[i].env_pgdir, MapVAs)]

\* The page directories no allocated env owns.
FreePgdirs(E) ==
    PgdirIds \ {E[i].env_pgdir : i \in {j \in Slots : E[j].env_status # ENV_FREE}}

\* The id env_alloc gives slot i: the slot's next generation.
NextEnvId(E, i) ==
    IF E[i].env_id = 0 THEN NENV + i ELSE E[i].env_id + NENV

\* The slots env_alloc can take (the cap on generations bounds the model).
AllocSlots(E) ==
    {i \in Slots : E[i].env_status = ENV_FREE /\ NextEnvId(E, i) < (MaxGen + 1) * NENV}

\* env_alloc(&e, parent_id) into slot i with the fresh page directory d; the
\* frame is cleared and given the user selectors and enabled interrupts.
env_alloc(E, i, d, parent_id) ==
    [E EXCEPT ![i] = [ZeroEnv EXCEPT !.env_id = NextEnvId(E, i),
                                     !.env_parent_id = parent_id,
                                     !.env_status = ENV_RUNNABLE,
                                     !.env_tf = UserTf(0, 0),
                                     !.env_pgdir = d]]

\* The pages region_alloc(e, va, len) covers: those that overlap [va, va + len).
RegionPages(va, len) ==
    {v \in MapVAs : len > 0 /\ v + PGSIZE > va /\ v < va + len}

\* region_alloc(e, va, len): allocate a page for each page of the region and
\* map it user-writable in e's page directory, lowest address first with the
\* lowest free page.  ok is FALSE when the allocator runs dry, on which
\* region_alloc panics.
RECURSIVE region_alloc(_, _, _)
region_alloc(M, d, vas) ==
    IF vas = {} THEN [mem |-> M, ok |-> TRUE]
    ELSE IF M.page_free_list = {} THEN [mem |-> M, ok |-> FALSE]
    ELSE LET va == CHOOSE v \in vas : \A w \in vas : v <= w
             p == CHOOSE q \in M.page_free_list : \A w \in M.page_free_list : q <= w
         IN region_alloc(page_insert(page_alloc(M, p), d, p, va, {PTE_U, PTE_W}),
                         d, vas \ {va})

(***************************************************************************)
(* kern/sched.c and env_run                                                *)
(***************************************************************************)
Running(E) == {i \in Slots : E[i].env_status = ENV_RUNNING}
Runnable(E) == {i \in Slots : E[i].env_status = ENV_RUNNABLE}

\* sched_yield() on the CPU of env c: some runnable env is chosen; with none,
\* the caller itself if it is still RUNNING; otherwise the CPU halts (NoEnv).
SchedChoices(E, c) ==
    IF Runnable(E) # {} THEN Runnable(E)
    ELSE IF E[c].env_status = ENV_RUNNING THEN {c}
    ELSE {NoEnv}

\* env_run(n) on the CPU whose current env is c: a current env that is still
\* RUNNING goes back to RUNNABLE, n becomes RUNNING.
env_run(E, c, n) ==
    IF n = NoEnv THEN E
    ELSE LET E1 == IF E[c].env_status = ENV_RUNNING
                   THEN [E EXCEPT ![c].env_status = ENV_RUNNABLE]
                   ELSE E
         IN [E1 EXCEPT ![n].env_status = ENV_RUNNING]

InKernel(c) == c \in kern /\ lock = 1 /\ envs[c].env_status = ENV_RUNNING

\* A faulty variant of SysenterReturn that goes back to the user without
\* unlock_kernel().
SysenterReturnLocked(c, E, op, ret) ==
    /\ envs' = E
    /\ kern' = kern \ {c}
    /\ last' = [op |-> op, caller |-> c, ret |-> ret, out |-> "ret"]
    /\ UNCHANGED <<lock, unlocks, budget>>

\* How control leaves sysenter after syscall() returned ret: unlock_kernel()
\* and back to the user, with ret in the accumulator.
SysenterReturn(c, E, op, ret) ==
    /\ envs' = E
    /\ lock' = 0
    /\ unlocks' = unlocks + 1
    /\ kern' = kern \ {c}
    /\ last' = [op |-> op, caller |-> c, ret |-> ret, out |-> "ret"]
    /\ UNCHANGED budget

\* How control leaves the kernel when the handler called sched_yield(): the
\* scheduler picks the next env and env_run releases the lock before it
\* resumes it (a halting CPU releases it too).  sysenter's own unlock is never
\* reached.
SchedYieldExit(c, E, op) ==
    /\ \E n \in SchedChoices(E, c) : envs' = env_run(E, c, n)
    /\ lock' = 0
    /\ unlocks' = unlocks + 1
    /\ kern' = kern \ {c}
    /\ last' = [op |-> op, caller |-> c, ret |-> 0, out |-> "yield"]
    /\ UNCHANGED budget

\* How control leaves the dispatcher on panic(): the CPU drops into the
\* kernel monitor and never returns; the kernel lock stays held.
PanicExit(c, E, op) ==
    /\ envs' = E
    /\ kern' = kern \ {c}
    /\ last' = [op |-> op, caller |-> c, ret |-> 0, out |-> "panic"]
    /\ UNCHANGED <<lock, unlocks, budget>>

\* How control leaves the kernel when the handler ends in env_run(curenv):
\* env_run releases the lock and resumes the caller from its env_tf.
EnvRunExit(c, E, op) ==
    /\ envs' = env_run(E, c, c)
    /\ lock' = 0
    /\ unlocks' = unlocks + 1
    /\ kern' = kern \ {c}
    /\ last' = [op |-> op, caller |-> c, ret |-> 0, out |-> "run"]
    /\ UNCHANGED budget

(***************************************************************************)
(* kern/syscall.c                                                          *)
(***************************************************************************)
\* What a handler leaves: the env table, physical memory, the value it
\* returns and whether it returned ("ret") or called sched_yield ("yield").
Res(E, M, ret, out) == [envs |-> E, mem |-> M, ret |-> ret, out |-> out]

\* A faulty variant of PermOk that lets bits outside PTE_SYSCALL through.
PermOkNoMask(perm) == PTE_U \in perm /\ PTE_P \in perm

\* The check on perm shared by sys_page_alloc, sys_page_map and
\* sys_ipc_try_send: PTE_U and PTE_P set, nothing outside PTE_SYSCALL.
PermOk(perm) == PTE_U \in perm /\ PTE_P \in perm /\ perm \subseteq PTE_SYSCALL

\* A faulty variant of IpcSendFinish that leaves the woken receiver's saved
\* accumulator as it was.
IpcSendFinishEaxKept(E, M, c, t, envid, value) ==
    IF E[t].env_ipc_recving = 1
    THEN Res([E EXCEPT ![t].env_ipc_recving = 0,
                       ![t].env_ipc_from = E[c].env_id,
                       ![t].env_ipc_value = value,
                       ![t].env_status = ENV_RUNNABLE],
             M, 0, "ret")
    ELSE Res([E EXCEPT ![c].env_ipc_pending_envid = envid,
                       ![c].env_ipc_pending_value = value,
                       ![c].env_status = ENV_NOT_RUNNABLE],
             M, 0, "yield")

\* A faulty variant of IpcSendFinish that leaves the receiver marked as
\* receiving after the delivery.
IpcSendFinishStillRecving(E, M, c, t, envid, value) ==
    IF E[t].env_ipc_recving = 1
    THEN Res([E EXCEPT ![t].env_ipc_from = E[c].env_id,
                       ![t].env_ipc_value = value,
                       ![t].env_status = ENV_RUNNABLE,
                       ![t].env_tf.reg_eax = 0],
             M, 0, "ret")
    ELSE Res([E EXCEPT ![c].env_ipc_pending_envid = envid,
                       ![c].env_ipc_pending_value = value,
                       ![c].env_status = ENV_NOT_RUNNABLE],
             M, 0, "yield")

\* sys_ipc_try_send, the last step: hand the value to a receiver that is
\* ready and wake it, or park the message in the sender and block.
IpcSendFinish(E, M, c, t, envid, value) ==
    IF E[t].env_ipc_recving = 1
    THEN Res([E EXCEPT ![t].env_ipc_recving = 0,
                       ![t].env_ipc_from = E[c].env_id,
                       ![t].env_ipc_value = value,
                       ![t].env_status = ENV_RUNNABLE,
                       ![t].env_tf.reg_eax = 0],
             M, 0, "ret")
    ELSE Res([E EXCEPT ![c].env_ipc_pending_envid = envid,
                       ![c].env_ipc_pending_value = value,
                       ![c].env_status = ENV_NOT_RUNNABLE],
             M, 0, "yield")

\* A faulty variant of SendChecksPage that looks at srcva and perm only when
\* the target is already receiving.
SendChecksPageRecvOnly(srcva, dstva, recving) == srcva < UTOP /\ dstva < UTOP /\ recving

\* Whether sys_ipc_try_send looks at srcva and perm at all: the sender offers
\* a page and the target either is not receiving yet or has a dstva below UTOP.
SendChecksPage(srcva, dstva, recving) == srcva < UTOP /\ (dstva < UTOP \/ ~recving)

\* A faulty variant of WriteEscalation that never objects.
WriteEscalationNever(perm, m) == FALSE

\* The write-escalation check: perm asks for PTE_W on a mapping without it.
WriteEscalation(perm, m) == PTE_W \in perm /\ PTE_W \notin m.perm

\* sys_ipc_try_send(envid, value, srcva, perm) called by the env in slot c.
\* ptfail: page_insert's page-table allocation fails if it has to allocate.
sys_ipc_try_send(E, M, c, envid, value, srcva, perm, ptfail) ==
    LET t == envid2env(E, c, envid, FALSE) IN
    IF t = NoEnv THEN Res(E, M, -E_BAD_ENV, "ret")
    ELSE
    LET recving == E[t].env_ipc_recving = 1
        E1 == IF recving
              THEN [E EXCEPT ![t].env_ipc_perm = {}]
              ELSE [E EXCEPT ![c].env_ipc_pending_page = NoPage]
        dstva == E1[t].env_ipc_dstva
        m == page_lookup(M, E1[c].env_pgdir, srcva)
    IN
    IF SendChecksPage(srcva, dstva, recving)
    THEN IF srcva % PGSIZE # 0 THEN Res(E1, M, -E_INVAL, "ret")
         ELSE IF ~PermOk(perm) THEN Res(E1, M, -E_INVAL, "ret")
         ELSE IF m.pg = NoPage THEN Res(E1, M, -E_INVAL, "ret")
         ELSE IF WriteEscalation(perm, m) THEN Res(E1, M, -E_INVAL, "ret")
         ELSE IF recving
              THEN IF ptfail /\ PtAllocCanFail(M, E1[t].env_pgdir)
                   THEN Res(E1, M, -E_NO_MEM, "ret")
                   ELSE IpcSendFinish([E1 EXCEPT ![t].env_ipc_perm = perm],
                                      page_insert(M, E1[t].env_pgdir, m.pg, dstva, perm),
                                      c, t, envid, value)
              ELSE IpcSendFinish([E1 EXCEPT ![c].env_ipc_pending_page = m.pg,
                                            ![c].env_ipc_pending_perm = perm],
                                 M, c, t, envid, value)
    ELSE IpcSendFinish(E1, M, c, t, envid, value)

\* The parked senders sys_ipc_recv's scan of envs[] can find for slot c.
ParkedFor(E, c) ==
    {i \in Slots : E[i].env_status # ENV_FREE
                    /\ E[i].env_ipc_pending_envid = E[c].env_id}

\* The first of them in the scan's order.
FirstParked(E, c) == CHOOSE i \in ParkedFor(E, c) : \A j \in ParkedFor(E, c) : i <= j

\* A faulty variant of IpcRecvFinish that wakes every sender parked for the
\* receiver, not only the one whose message it takes.
IpcRecvFinishWakesAll(E, M, c, s) ==
    Res([i \in Slots |->
           IF i = c THEN [E[c] EXCEPT !.env_ipc_value = E[s].env_ipc_pending_value,
                                      !.env_ipc_from = E[s].env_id]
           ELSE IF E[i].env_status # ENV_FREE /\ E[i].env_ipc_pending_envid = E[c].env_id
                THEN [E[i] EXCEPT !.env_ipc_pending_envid = 0,
                                  !.env_status = ENV_RUNNABLE,
                                  !.env_tf.reg_eax = 0]
                ELSE E[i]],
        M, 0, "ret")

\* sys_ipc_recv, harvesting the parked sender s: value and sender id are
\* taken over and the sender is woken with 0 in its accumulator.
IpcRecvFinish(E, M, c, s) ==
    Res([[E EXCEPT ![c].env_ipc_value = E[s].env_ipc_pending_value,
                   ![c].env_ipc_from = E[s].env_id]
            EXCEPT ![s].env_ipc_pending_envid = 0,
                   ![s].env_status = ENV_RUNNABLE,
                   ![s].env_tf.reg_eax = 0],
        M, 0, "ret")

\* sys_ipc_recv(dstva) called by the env in slot c.
sys_ipc_recv(E, M, c, dstva, ptfail) ==
    IF dstva < UTOP /\ dstva % PGSIZE # 0 THEN Res(E, M, -E_INVAL, "ret")
    ELSE
    LET E1 == IF dstva < UTOP THEN [E EXCEPT ![c].env_ipc_dstva = dstva] ELSE E IN
    IF ParkedFor(E1, c) # {}
    THEN LET s == FirstParked(E1, c)
             E2 == [E1 EXCEPT ![c].env_ipc_perm = {}]
             page == E2[s].env_ipc_pending_page
             perm == E2[s].env_ipc_pending_perm
         IN IF page # NoPage /\ dstva < UTOP
            THEN IF ptfail /\ PtAllocCanFail(M, E2[c].env_pgdir)
                 THEN Res(E2, M, -E_NO_MEM, "ret")
                 ELSE IpcRecvFinish([E2 EXCEPT ![c].env_ipc_perm = perm],
                                    page_insert(M, E2[c].env_pgdir, page, dstva, perm),
                                    c, s)
            ELSE IpcRecvFinish(E2, M, c, s)
    ELSE Res([E1 EXCEPT ![c].env_ipc_recving = 1,
                        ![c].env_status = ENV_NOT_RUNNABLE],
             M, 0, "yield")

\* sys_page_alloc(envid, va, perm) called by slot c.  p is the page at the
\* head of the free list, NoPage when the list is empty.
sys_page_alloc(E, M, c, envid, va, perm, p, ptfail) ==
    LET t == envid2env(E, c, envid, TRUE) IN
    IF t = NoEnv THEN Res(E, M, -E_BAD_ENV, "ret")
    ELSE IF va >= UTOP \/ va % PGSIZE # 0 THEN Res(E, M, -E_INVAL, "ret")
    ELSE IF ~PermOk(perm) THEN Res(E, M, -E_INVAL, "ret")
    ELSE IF p = NoPage THEN Res(E, M, -E_NO_MEM, "ret")
    ELSE LET M1 == page_alloc(M, p) IN
         IF ptfail /\ PtAllocCanFail(M1, E[t].env_pgdir)
         THEN Res(E, page_free(M1, p), -E_NO_MEM, "ret")
         ELSE Res(E, page_insert(M1, E[t].env_pgdir, p, va, perm), 0, "ret")

\* sys_page_map(srcenvid, srcva, dstenvid, dstva, perm) called by slot c.
sys_page_map(E, M, c, srcenvid, srcva, dstenvid, dstva, perm, ptfail) ==
    LET se == envid2env(E, c, srcenvid, TRUE)
        de == envid2env(E, c, dstenvid, TRUE)
        m == page_lookup(M, E[se].env_pgdir, srcva)
    IN
    IF se = NoEnv THEN Res(E, M, -E_BAD_ENV, "ret")
    ELSE IF de = NoEnv THEN Res(E, M, -E_BAD_ENV, "ret")
    ELSE IF srcva >= UTOP \/ srcva % PGSIZE # 0 THEN Res(E, M, -E_INVAL, "ret")
    ELSE IF dstva >= UTOP \/ dstva % PGSIZE # 0 THEN Res(E, M, -E_INVAL, "ret")
    ELSE IF m.pg = NoPage THEN Res(E, M, -E_INVAL, "ret")
    ELSE IF ~PermOk(perm) THEN Res(E, M, -E_INVAL, "ret")
    ELSE IF WriteEscalation(perm, m) THEN Res(E, M, -E_INVAL, "ret")
    ELSE IF ptfail /\ PtAllocCanFail(M, E[de].env_pgdir) THEN Res(E, M, -E_NO_MEM, "ret")
    ELSE Res(E, page_insert(M, E[de].env_pgdir, m.pg, dstva, perm), 0, "ret")

\* sys_page_unmap(envid, va) called by slot c.
sys_page_unmap(E, M, c, envid, va) ==
    LET t == envid2env(E, c, envid, TRUE) IN
    IF t = NoEnv THEN Res(E, M, -E_BAD_ENV, "ret")
    ELSE IF va >= UTOP \/ va % PGSIZE # 0 THEN Res(E, M, -E_INVAL, "ret")
    ELSE IF page_lookup(M, E[t].env_pgdir, va).pg = NoPage THEN Res(E, M, 0, "ret")
    ELSE Res(E, page_remove(M, E[t].env_pgdir, va), 0, "ret")

\* A faulty variant of sys_exofork that copies the register set and forgets
\* to zero the child's accumulator.
sys_exofork_eax_kept(E, M, c, i, d, err) ==
    IF i = NoEnv THEN Res(E, M, -err, "ret")
    ELSE LET E1 == env_alloc(E, i, d, E[c].env_id)
             E2 == [E1 EXCEPT ![i].env_status = ENV_NOT_RUNNABLE,
                              ![i].env_tf = E1[c].env_tf,
                              ![i].env_break = E1[c].env_break]
         IN Res(E2, M, E2[i].env_id, "ret")

\* sys_exofork() called by slot c.  env_alloc takes slot i with the fresh page
\* directory d, or fails: i = NoEnv with the error err.
sys_exofork(E, M, c, i, d, err) ==
    IF i = NoEnv THEN Res(E, M, -err, "ret")
    ELSE LET E1 == env_alloc(E, i, d, E[c].env_id)
             E2 == [E1 EXCEPT ![i].env_status = ENV_NOT_RUNNABLE,
                              ![i].env_tf = E1[c].env_tf,
                              ![i].env_break = E1[c].env_break]
             E3 == [E2 EXCEPT ![i].env_tf.reg_eax = 0]
         IN Res(E3, M, E3[i].env_id, "ret")

\* A faulty variant of sys_env_set_status that stores whatever status it is
\* given.
sys_env_set_status_any(E, M, c, envid, status) ==
    LET t == envid2env(E, c, envid, TRUE) IN
    IF t = NoEnv THEN Res(E, M, -E_BAD_ENV, "ret")
    ELSE Res([E EXCEPT ![t].env_status = status], M, 0, "ret")

\* sys_env_set_status(envid, status) called by slot c.
sys_env_set_status(E, M, c, envid, status) ==
    LET t == envid2env(E, c, envid, TRUE) IN
    IF t = NoEnv THEN Res(E, M, -E_BAD_ENV, "ret")
    ELSE IF status # ENV_RUNNABLE /\ status # ENV_NOT_RUNNABLE THEN Res(E, M, -E_INVAL, "ret")
    ELSE Res([E EXCEPT ![t].env_status = status], M, 0, "ret")

\* env_destroy(e) called on the CPU of slot c: the env is freed; destroying
\* the current env ends in sched_yield() and never returns.
env_destroy(E, M, c, t, ret) ==
    LET f == env_free(E, M, t) IN
    Res(f.envs, f.mem, ret, IF t = c THEN "yield" ELSE "ret")

\* sys_env_destroy(envid) called by slot c.
sys_env_destroy(E, M, c, envid) ==
    LET t == envid2env(E, c, envid, TRUE) IN
    IF t = NoEnv THEN Res(E, M, -E_BAD_ENV, "ret")
    ELSE env_destroy(E, M, c, t, 0)

\* A faulty variant of ForceUserMode that trusts the code selector supplied.
ForceUserModeCsKept(tf) ==
    [tf EXCEPT !.tf_ds = GD_UD + 3, !.tf_es = GD_UD + 3, !.tf_ss = GD_UD + 3,
               !.tf_eflags = @ \cup {FL_IF}]

\* What sys_env_set_trapframe overwrites in the frame it copied: the four
\* selectors, and FL_IF is or-ed into the flags.
ForceUserMode(tf) ==
    [tf EXCEPT !.tf_ds = GD_UD + 3, !.tf_es = GD_UD + 3, !.tf_ss = GD_UD + 3,
               !.tf_cs = GD_UT + 3, !.tf_eflags = @ \cup {FL_IF}]

\* sys_env_set_trapframe(envid, tf) called by slot c.  readable: whether
\* user_mem_assert finds the sizeof(struct Trapframe) bytes at the pointer
\* readable; it destroys the caller when they are not.  tf: their contents.
sys_env_set_trapframe(E, M, c, envid, tf, readable) ==
    IF ~readable THEN env_destroy(E, M, c, c, 0)
    ELSE LET t == envid2env(E, c, envid, TRUE) IN
         IF t = NoEnv THEN Res(E, M, -E_BAD_ENV, "ret")
         ELSE Res([E EXCEPT ![t].env_tf = ForceUserMode(tf)], M, 0, "ret")

\* sys_exec_commit(envid) called by slot c: take over the donor's frame,
\* upcall and break, swap the page directories, destroy the donor and resume
\* the caller through env_run ("run": no return to sysenter).
sys_exec_commit(E, M, c, envid) ==
    LET t == envid2env(E, c, envid, TRUE) IN
    IF t = NoEnv THEN Res(E, M, -E_BAD_ENV, "ret")
    ELSE LET E1 == [E EXCEPT ![c].env_tf = E[t].env_tf,
                             ![c].env_pgfault_upcall = E[t].env_pgfault_upcall,
                             ![c].env_break = E[t].env_break]
             tmp_pgdir == E1[c].env_pgdir
             E2 == [E1 EXCEPT ![c].env_pgdir = E1[t].env_pgdir]
             E3 == [E2 EXCEPT ![t].env_pgdir = tmp_pgdir]
             r == env_destroy(E3, M, c, t, 0)
         IN IF r.out = "yield" THEN r ELSE Res(r.envs, r.mem, 0, "run")

\* ROUNDUP(inc, PGSIZE) as stored in the uint32_t inc_size.
RoundUp32(inc) == (((inc + PGSIZE - 1) \div PGSIZE) * PGSIZE) % Word

\* The range test of sys_sbrk on the uint32_t sum env_break + inc_size.
SbrkOutOfRange(break, inc_size) ==
    \/ (break + inc_size) % Word > ULIM
    \/ (break + inc_size) % Word < break

\* sys_sbrk(inc) called by slot c.
sys_sbrk(E, M, c, inc) ==
    LET inc_size == RoundUp32(inc)
        break == E[c].env_break
    IN IF SbrkOutOfRange(break, inc_size) THEN env_destroy(E, M, c, c, -1)
       ELSE LET a == region_alloc(M, E[c].env_pgdir, RegionPages(break, inc_size))
                new == (break + inc_size) % Word
            IN IF ~a.ok THEN Res(E, a.mem, 0, "panic")
               ELSE Res([E EXCEPT ![c].env_break = new], a.mem, new, "ret")

\* sys_cputs(s, len) called by slot c.  readable: whether user_mem_assert
\* finds the len bytes at s readable by the caller; if not it destroys the
\* caller.  The dispatcher returns 0 after the void handler.
sys_cputs(E, M, c, str, readable) ==
    IF str = 0 THEN Res(E, M, 0, "panic")
    ELSE IF ~readable THEN env_destroy(E, M, c, c, 0)
    ELSE Res(E, M, 0, "ret")

\* sys_env_set_pgfault_upcall(envid, func) called by slot c.
sys_env_set_pgfault_upcall(E, M, c, envid, func) ==
    LET t == envid2env(E, c, envid, TRUE) IN
    IF t = NoEnv THEN Res(E, M, -E_BAD_ENV, "ret")
    ELSE IF func = 0 THEN Res(E, M, 0, "panic")
    ELSE Res([E EXCEPT ![t].env_pgfault_upcall = func], M, 0, "ret")

\* sys_map_kernel_page(kpage, va) called by slot c.  kpage is given as the
\* page pa2page(PADDR(kpage)) finds, NoPage when the address is not that of a
\* managed page.  The error is returned as the positive E_INVAL.
sys_map_kernel_page(E, M, c, kpage, va, ptfail) ==
    IF kpage = NoPage THEN Res(E, M, E_INVAL, "ret")
    ELSE IF ptfail /\ PtAllocCanFail(M, E[c].env_pgdir) THEN Res(E, M, -E_NO_MEM, "ret")
    ELSE Res(E, page_insert(M, E[c].env_pgdir, kpage, va, {PTE_U, PTE_W}), 0, "ret")

\* sys_yield() called by slot c.
sys_yield(E, M, c) == Res(E, M, 0, "yield")

(***************************************************************************)
(* The actions.                                                            *)
(***************************************************************************)
CurMem == Mem(pgdirs, pp_ref, page_free_list)

SetMem(M) ==
    /\ pgdirs' = M.pgdirs
    /\ pp_ref' = M.pp_ref
    /\ page_free_list' = M.page_free_list

\* The env ids a user passes: itself (0), every id an envs[] slot holds or has
\* held, and an id no env has.
EnvidInputs == {0} \cup {envs[i].env_id : i \in Slots} \cup {NextEnvId(envs, 0)}

\* Whether page_insert can be made to fail in the current state at all.
PtFailInputs == IF page_free_list = {} THEN BOOLEAN ELSE {FALSE}

\* What page_alloc() can return: a page of the free list, NULL when it is empty.
PageAllocChoices == IF page_free_list = {} THEN {NoPage} ELSE page_free_list

\* What env_alloc can do: take a free slot i and a free page directory d, or
\* fail with -E_NO_FREE_ENV (no slot is free) or -E_NO_MEM (no page for the
\* directory).  <<i, d, err>>.
EnvAllocChoices ==
    IF \A i \in Slots : envs[i].env_status # ENV_FREE
    THEN {<<NoEnv, NoPgdir, E_NO_FREE_ENV>>}
    ELSE {<<i, d, 0>> : i \in AllocSlots(envs), d \in FreePgdirs(envs)}
         \cup (IF page_free_list = {} THEN {<<NoEnv, NoPgdir, E_NO_MEM>>} ELSE {})

\* The frames a user passes to sys_env_set_trapframe: a user-mode frame, a
\* frame asking for kernel selectors with interrupts off, and two mixed ones.
TfInputs ==
    {UserTf(1, 20),
     [reg_eax |-> 5, tf_eip |-> 21, tf_cs |-> GD_KT, tf_ds |-> GD_KD, tf_es |-> GD_KD,
      tf_ss |-> GD_KD, tf_eflags |-> {}],
     [reg_eax |-> 0, tf_eip |-> 22, tf_cs |-> GD_UT + 3, tf_ds |-> GD_KD, tf_es |-> GD_UD + 3,
      tf_ss |-> GD_UD, tf_eflags |-> {FL_IOPL, FL_CF}],
     [reg_eax |-> 6, tf_eip |-> 23, tf_cs |-> GD_KT + 3, tf_ds |-> GD_UD + 3, tf_es |-> GD_KD,
      tf_ss |-> GD_KD + 1, tf_eflags |-> {FL_IF, FL_IOPL}]}

\* The increments a user passes to sys_sbrk: nothing, less than a page, a
\* page, the whole user range, and the largest values of a 32-bit word.
IncInputs == {0, 1, PGSIZE, ULIM, Word - PGSIZE, Word - 1}

\* The pointers a user passes as a string or as an upcall entry: null and two
\* addresses.
PtrInputs == {0, 30, 31}

\* The status values a user passes to sys_env_set_status: the five of the
\* enum and one outside it.
StatusInputs == {ENV_FREE, ENV_DYING, ENV_RUNNABLE, ENV_RUNNING, ENV_NOT_RUNNABLE, "BOGUS"}

\* sysenter up to the call of syscall(): lock_kernel() waits for the lock,
\* then the caller's registers are saved in curenv->env_tf.  The user's
\* registers are those it was resumed with, the accumulator holding what user
\* code put there (the system call number, not zero).
SysenterEntry(c) ==
    /\ envs[c].env_status = ENV_RUNNING
    /\ c \notin kern
    /\ lock = 0
    /\ budget > 0
    /\ budget' = budget - 1
    /\ lock' = 1
    /\ kern' = kern \cup {c}
    /\ unlocks' = 0
    /\ envs' = [envs EXCEPT ![c].env_tf.reg_eax = 1]
    /\ pend' = [pend EXCEPT ![c] = NoCall]
    /\ last' = NoLast
    /\ UNCHANGED <<pgdirs, pp_ref, page_free_list>>

\* The call an env is blocked in is over once the env is no longer
\* NOT_RUNNABLE (woken or freed).
ClearWoken(E, p) ==
    [i \in Slots |-> IF E[i].env_status = ENV_NOT_RUNNABLE THEN p[i] ELSE NoCall]

\* How a handler's result leaves the kernel.  call is the record of the call
\* kept for a caller that blocks in it.
SysExit(c, r, op, call) ==
    /\ SetMem(r.mem)
    /\ pend' = ClearWoken(r.envs, IF r.out = "yield" /\ call.op # "none"
                                  THEN [pend EXCEPT ![c] = call] ELSE pend)
    /\ IF r.out = "ret" THEN SysenterReturn(c, r.envs, op, r.ret)
       ELSE IF r.out = "panic" THEN PanicExit(c, r.envs, op)
       ELSE IF r.out = "run" THEN EnvRunExit(c, r.envs, op)
       ELSE SchedYieldExit(c, r.envs, op)

SysIpcTrySend(c, envid, value, srcva, perm, ptfail) ==
    /\ InKernel(c)
    /\ SysExit(c, sys_ipc_try_send(envs, CurMem, c, envid, value, srcva, perm, ptfail),
               "ipc_try_send",
               [op |-> "ipc_try_send", envid |-> envid, value |-> value,
                va |-> srcva, perm |-> perm])

SysIpcRecv(c, dstva, ptfail) ==
    /\ InKernel(c)
    /\ SysExit(c, sys_ipc_recv(envs, CurMem, c, dstva, ptfail), "ipc_recv",
               [op |-> "ipc_recv", envid |-> 0, value |-> 0, va |-> dstva, perm |-> {}])

SysPageAlloc(c, envid, va, perm, p, ptfail) ==
    /\ InKernel(c)
    /\ SysExit(c, sys_page_alloc(envs, CurMem, c, envid, va, perm, p, ptfail),
               "page_alloc", NoCall)

SysPageMap(c, srcenvid, srcva, dstenvid, dstva, perm, ptfail) ==
    /\ InKernel(c)
    /\ SysExit(c, sys_page_map(envs, CurMem, c, srcenvid, srcva, dstenvid, dstva, perm, ptfail),
               "page_map", NoCall)

SysPageUnmap(c, envid, va) ==
    /\ InKernel(c)
    /\ SysExit(c, sys_page_unmap(envs, CurMem, c, envid, va), "page_unmap", NoCall)

SysExofork(c, a) ==
    /\ InKernel(c)
    /\ SysExit(c, sys_exofork(envs, CurMem, c, a[1], a[2], a[3]), "exofork", NoCall)

SysEnvSetStatus(c, envid, status) ==
    /\ InKernel(c)
    /\ SysExit(c, sys_env_set_status(envs, CurMem, c, envid, status), "env_set_status", NoCall)

SysEnvDestroy(c, envid) ==
    /\ InKernel(c)
    /\ SysExit(c, sys_env_destroy(envs, CurMem, c, envid), "env_destroy", NoCall)

SysExecCommit(c, envid) ==
    /\ InKernel(c)
    /\ SysExit(c, sys_exec_commit(envs, CurMem, c, envid), "exec_commit", NoCall)

SysEnvSetTrapframe(c, envid, tf, readable) ==
    /\ InKernel(c)
    /\ SysExit(c, sys_env_set_trapframe(envs, CurMem, c, envid, tf, readable),
               "env_set_trapframe", NoCall)

SysSbrk(c, inc) ==
    /\ InKernel(c)
    /\ SysExit(c, sys_sbrk(envs, CurMem, c, inc), "sbrk", NoCall)

SysCputs(c, str, readable) ==
    /\ InKernel(c)
    /\ SysExit(c, sys_cputs(envs, CurMem, c, str, readable), "cputs", NoCall)

SysEnvSetPgfaultUpcall(c, envid, func) ==
    /\ InKernel(c)
    /\ SysExit(c, sys_env_set_pgfault_upcall(envs, CurMem, c, envid, func),
               "env_set_pgfault_upcall", NoCall)

SysMapKernelPage(c, kpage, va, ptfail) ==
    /\ InKernel(c)
    /\ SysExit(c, sys_map_kernel_page(envs, CurMem, c, kpage, va, ptfail),
               "map_kernel_page", NoCall)

SysYield(c) ==
    /\ InKernel(c)
    /\ SysExit(c, sys_yield(envs, CurMem, c), "yield", NoCall)

\* An idle CPU takes a timer interrupt and its scheduler finds env n to run
\* (lock_kernel, sched_yield, env_run, unlock_kernel in one step).
SchedIdle(n) ==
    /\ lock = 0
    /\ Cardinality(Running(envs)) < NCPU
    /\ envs[n].env_status = ENV_RUNNABLE
    /\ envs' = [envs EXCEPT ![n].env_status = ENV_RUNNING]
    /\ UNCHANGED <<pgdirs, pp_ref, page_free_list, lock, kern, unlocks, pend, last, budget>>

(***************************************************************************)
(* Initial states.                                                         *)
(***************************************************************************)
\* An env as env_create and the first env_run leave it: a root env (no
\* parent) with its program loaded, running on a CPU of its own.
RootEnv(i, d) ==
    [ZeroEnv EXCEPT !.env_id = NENV + i, !.env_status = ENV_RUNNING,
                    !.env_tf = UserTf(0, 10 + i),
                    !.env_pgdir = d, !.env_break = 1 + i]

\* The envs of the slots in live: slot 0 and slot 2 are root envs, slot 1 is a
\* child that slot 0 forked and made runnable; the other slots are free.
InitKernel(calls, live) ==
    /\ envs = [i \in Slots |->
                 IF i \notin live THEN ZeroEnv
                 ELSE IF i = 0 THEN RootEnv(0, 0)
                 ELSE IF i = 1 THEN [RootEnv(1, 1) EXCEPT !.env_parent_id = NENV]
                 ELSE RootEnv(i, i)]
    /\ lock = 0
    /\ kern = {}
    /\ unlocks = 0
    /\ pend = [i \in Slots |-> NoCall]
    /\ last = NoLast
    /\ budget = calls

\* Slot 0 maps page 1 writable at 0 and slot 1 maps page pg1 read-only at 0:
\* page 2, or page 1 shared with slot 0.  The other pages are free.
InitMem(pg1) ==
    /\ pgdirs = [d \in PgdirIds |->
                 IF d = 0 THEN [EmptyPgdir EXCEPT ![0] = [pg |-> 1, perm |-> {PTE_P, PTE_U, PTE_W}]]
                 ELSE IF d = 1 THEN [EmptyPgdir EXCEPT ![0] = [pg |-> pg1, perm |-> {PTE_P, PTE_U}]]
                 ELSE EmptyPgdir]
    /\ pp_ref = [p \in Pages |-> IF p = 1 THEN (IF pg1 = 1 THEN 2 ELSE 1)
                                 ELSE IF p = pg1 THEN 1 ELSE 0]
    /\ page_free_list = Pages \ {1, pg1}

\* The same mappings with memory exhausted: every other page is in use by
\* the kernel (page tables), none is free.
InitMemFull ==
    /\ pgdirs = [d \in PgdirIds |->
                 IF d = 0 THEN [EmptyPgdir EXCEPT ![0] = [pg |-> 1, perm |-> {PTE_P, PTE_U, PTE_W}]]
                 ELSE IF d = 1 THEN [EmptyPgdir EXCEPT ![0] = [pg |-> 2, perm |-> {PTE_P, PTE_U}]]
                 ELSE EmptyPgdir]
    /\ pp_ref = [p \in Pages |-> 1]
    /\ page_free_list = {}

InitEnvs(calls, live) == InitKernel(calls, live) /\ InitMem(2)

InitIPC == InitEnvs(CallsIPC, {0, 1, 2})

StepSysenter == \E c \in Slots : SysenterEntry(c)
StepSched == \E n \in Slots : SchedIdle(n)
StepIpcTrySend ==
    \E c \in kern, envid \in EnvidInputs, value \in Values, srcva \in VAInputs :
        \E perm \in SendPerms(srcva), ptfail \in PtFailInputs :
            SysIpcTrySend(c, envid, value, srcva, perm, ptfail)
StepIpcRecv ==
    \E c \in kern, dstva \in VAInputs, ptfail \in PtFailInputs : SysIpcRecv(c, dstva, ptfail)
StepEnvSetStatus ==
    \E c \in kern, envid \in EnvidInputs, status \in StatusInputs :
        SysEnvSetStatus(c, envid, status)

NextIPC ==
    \/ StepSysenter
    \/ StepSched
    \/ StepIpcTrySend
    \/ StepIpcRecv
    \/ StepEnvSetStatus

SpecIPC == InitIPC /\ [][NextIPC]_vars

\* sys_ipc_try_send against every state of its target.
InitSend == InitEnvs(CallsSend, {0, 1, 2})

NextSend ==
    \/ StepSysenter
    \/ StepSched
    \/ StepIpcTrySend
    \/ StepIpcRecv

SpecSend == InitSend /\ [][NextSend]_vars

\* The page-mapping calls.
StepPageAlloc ==
    \E c \in kern, envid \in EnvidInputs, va \in VAInputs, perm \in PermInputs :
        \E p \in PageAllocChoices, ptfail \in PtFailInputs :
            SysPageAlloc(c, envid, va, perm, p, ptfail)
StepPageMap ==
    \E c \in kern, srcenvid \in EnvidInputs, srcva \in VAInputs :
        \E dstenvid \in EnvidInputs, dstva \in VAInputs, perm \in PermInputs :
            \E ptfail \in PtFailInputs :
                SysPageMap(c, srcenvid, srcva, dstenvid, dstva, perm, ptfail)
StepPageUnmap ==
    \E c \in kern, envid \in EnvidInputs, va \in VAInputs : SysPageUnmap(c, envid, va)

InitPage == InitKernel(CallsPage, {0, 1, 2}) /\ \E pg1 \in {1, 2} : InitMem(pg1)

NextPage ==
    \/ StepSysenter
    \/ StepPageAlloc
    \/ StepPageMap
    \/ StepPageUnmap

SpecPage == InitPage /\ [][NextPage]_vars

\* The calls that create, start, replace and destroy envs; slot 2 is free.
StepExofork == \E c \in kern, a \in EnvAllocChoices : SysExofork(c, a)
StepEnvDestroy == \E c \in kern, envid \in EnvidInputs : SysEnvDestroy(c, envid)
StepExecCommit == \E c \in kern, envid \in EnvidInputs : SysExecCommit(c, envid)
StepYield == \E c \in kern : SysYield(c)

InitEnv == InitEnvs(CallsEnv, {0, 1})

NextEnv ==
    \/ StepSysenter
    \/ StepSched
    \/ StepExofork
    \/ StepEnvSetStatus
    \/ StepEnvDestroy
    \/ StepExecCommit

SpecEnv == InitEnv /\ [][NextEnv]_vars

\* Every way a call leaves the kernel: the return through sysenter, the
\* blocking branches of the IPC calls, sys_yield, and sys_exec_commit.
InitLock == InitEnvs(CallsLock, {0, 1})

NextLock ==
    \/ StepSysenter
    \/ StepSched
    \/ StepIpcTrySend
    \/ StepIpcRecv
    \/ StepYield
    \/ StepExecCommit
    \/ StepEnvDestroy

SpecLock == InitLock /\ [][NextLock]_vars

(***************************************************************************)
(* The claims about the IPC rendezvous.                                    *)
(***************************************************************************)
\* R is blocked in the sys_ipc_recv call it made (receiver first).
BlockedInRecv(R) ==
    /\ pend[R].op = "ipc_recv"
    /\ envs[R].env_status = ENV_NOT_RUNNABLE
    /\ envs[R].env_ipc_recving = 1

\* S is parked in the sys_ipc_try_send call it made (sender first).
ParkedInSend(S) ==
    /\ pend[S].op = "ipc_try_send"
    /\ envs[S].env_status = ENV_NOT_RUNNABLE
    /\ envs[S].env_ipc_pending_envid # 0

\* The send of S that completes the receive R is blocked in.
SendTo(S, R, envid, value, srcva, perm, ptfail) ==
    sys_ipc_try_send(envs, CurMem, S, envid, value, srcva, perm, ptfail)

\* C1: the IPC round-trip law.  In either arrival order, once the send and
\* the receive have both completed successfully the receiver holds the
\* sender's env id and value, and env_ipc_perm is the perm sent if both
\* calls asked for a page (srcva < UTOP and dstva < UTOP) and 0 otherwise.
C1_RoundTripLaw ==
    /\ \A S \in kern, R \in Slots :
         BlockedInRecv(R) =>
           \A envid \in EnvidInputs, value \in Values, srcva \in VAInputs :
             \A perm \in SendPerms(srcva), ptfail \in PtFailInputs :
               LET r == SendTo(S, R, envid, value, srcva, perm, ptfail) IN
               (envid2env(envs, S, envid, FALSE) = R /\ r.ret = 0 /\ r.out = "ret") =>
                 /\ r.envs[R].env_ipc_from = envs[S].env_id
                 /\ r.envs[R].env_ipc_value = value
                 /\ r.envs[R].env_ipc_perm =
                      (IF srcva < UTOP /\ pend[R].va < UTOP THEN perm ELSE {})
    /\ \A R \in kern, S \in Slots :
         (ParkedInSend(S) /\ ParkedFor(envs, R) # {} /\ S = FirstParked(envs, R)) =>
           \A dstva \in VAInputs, ptfail \in PtFailInputs :
             LET r == sys_ipc_recv(envs, CurMem, R, dstva, ptfail) IN
             (r.ret = 0 /\ r.out = "ret") =>
               /\ r.envs[R].env_ipc_from = envs[S].env_id
               /\ r.envs[R].env_ipc_value = pend[S].value
               /\ r.envs[R].env_ipc_perm =
                    (IF pend[S].va < UTOP /\ dstva < UTOP THEN pend[S].perm ELSE {})

\* C2: a rendezvous maps a page into the receiver iff the sender passed
\* srcva < UTOP and the receiver passed dstva < UTOP to the receive this send
\* completes; a receiver that passed dstva >= UTOP keeps its page mappings
\* and gets the value with env_ipc_perm = 0.
C2_PageIffBothWilling ==
    \A S \in kern, R \in Slots :
      BlockedInRecv(R) =>
        \A envid \in EnvidInputs, value \in Values, srcva \in VAInputs :
          \A perm \in SendPerms(srcva), ptfail \in PtFailInputs :
            LET r == SendTo(S, R, envid, value, srcva, perm, ptfail)
                d == envs[R].env_pgdir
                both == srcva < UTOP /\ pend[R].va < UTOP
            IN (envid2env(envs, S, envid, FALSE) = R /\ r.ret = 0 /\ r.out = "ret") =>
                 /\ both =>
                      r.mem.pgdirs[d][pend[R].va] =
                        [pg |-> pgdirs[envs[S].env_pgdir][srcva].pg, perm |-> perm]
                 /\ ~both => r.mem.pgdirs[d] = pgdirs[d]
                 /\ pend[R].va >= UTOP =>
                      /\ r.envs[R].env_ipc_value = value
                      /\ r.envs[R].env_ipc_perm = {}

\* C3: a sys_ipc_try_send that returns an error leaves every field of every
\* Env as it was at syscall entry.
C3_SendErrorNoMutation ==
    \A c \in kern :
      \A envid \in EnvidInputs, value \in Values, srcva \in VAInputs :
        \A perm \in SendPerms(srcva), ptfail \in PtFailInputs :
          LET r == sys_ipc_try_send(envs, CurMem, c, envid, value, srcva, perm, ptfail) IN
          r.ret < 0 => r.envs = envs

\* C9: an env blocked in sys_ipc_recv or parked in sys_ipc_try_send becomes
\* RUNNABLE only in the step in which its partner completes the rendezvous:
\* a send to it as receiver, or a receive that harvests it as parked sender.
C9_WakeOnlyByPartner ==
    [][\A e \in Slots :
         ((BlockedInRecv(e) \/ ParkedInSend(e)) /\ envs'[e].env_status = ENV_RUNNABLE) =>
           \/ /\ BlockedInRecv(e)
              /\ last'.op = "ipc_try_send" /\ last'.out = "ret" /\ last'.ret = 0
              /\ envs'[e].env_ipc_recving = 0
              /\ envs'[e].env_ipc_from = envs[last'.caller].env_id
           \/ /\ ParkedInSend(e)
              /\ last'.op = "ipc_recv" /\ last'.out = "ret" /\ last'.ret = 0
              /\ envs'[e].env_ipc_pending_envid = 0
              /\ envs'[last'.caller].env_ipc_from = envs[e].env_id]_vars

(***************************************************************************)
(* The claims about argument validation.                                   *)
(***************************************************************************)
\* A perm the interface rejects: PTE_U or PTE_P missing, or a bit outside
\* PTE_U | PTE_P | PTE_W | PTE_AVAIL.
BadPerm(perm) ==
    \/ PTE_U \notin perm
    \/ PTE_P \notin perm
    \/ perm \ {PTE_U, PTE_P, PTE_W, PTE_AVAIL} # {}

\* A user VA the interface rejects: at or above UTOP, or not page-aligned.
BadVA(va) == va >= UTOP \/ va % PGSIZE # 0

\* The call changed nothing: no Env, no mapping, no reference count.
NoChange(r) == r.envs = envs /\ r.mem = CurMem

\* C4: for every env the caller may modify, sys_page_alloc and sys_page_map
\* return -E_INVAL and change nothing when perm is invalid or a user VA is
\* at or above UTOP or unaligned; the last page below UTOP with perm P|U or
\* P|U|W|AVAIL passes validation.
C4_PageArgsValidated ==
    \A c \in kern, envid \in EnvidInputs, va \in VAInputs, perm \in PermInputs :
      /\ \A p \in PageAllocChoices, ptfail \in PtFailInputs :
           LET r == sys_page_alloc(envs, CurMem, c, envid, va, perm, p, ptfail) IN
           envid2env(envs, c, envid, TRUE) # NoEnv =>
             /\ (BadPerm(perm) \/ BadVA(va)) => (r.ret = -E_INVAL /\ NoChange(r))
             /\ (va = UTOP - PGSIZE
                 /\ perm \in {{PTE_U, PTE_P}, {PTE_U, PTE_P, PTE_W, PTE_AVAIL}})
                  => r.ret # -E_INVAL
      /\ \A dstenvid \in EnvidInputs, va2 \in VAInputs, ptfail \in PtFailInputs :
           /\ envid2env(envs, c, envid, TRUE) # NoEnv
           /\ envid2env(envs, c, dstenvid, TRUE) # NoEnv
           => LET r == sys_page_map(envs, CurMem, c, envid, va, dstenvid, va2, perm, ptfail)
                  src == page_lookup(CurMem, envs[envid2env(envs, c, envid, TRUE)].env_pgdir, va)
              IN /\ (BadPerm(perm) \/ BadVA(va) \/ BadVA(va2))
                      => (r.ret = -E_INVAL /\ NoChange(r))
                 /\ (~BadVA(va) /\ va2 = UTOP - PGSIZE /\ src.pg # NoPage
                     /\ perm = {PTE_U, PTE_P})
                      => r.ret # -E_INVAL

\* C4 witness: a caller in the kernel for which sys_page_alloc rejects a perm
\* without PTE_P and a perm with a bit outside PTE_SYSCALL, sys_page_map
\* rejects a dstva at UTOP and an unaligned srcva, all without any change,
\* and sys_page_alloc at the last page below UTOP succeeds.
C4_Witness ==
    \E c \in kern, p \in PageAllocChoices :
      /\ p # NoPage
      /\ sys_page_alloc(envs, CurMem, c, 0, 0, {PTE_U, PTE_W}, p, FALSE).ret = -E_INVAL
      /\ NoChange(sys_page_alloc(envs, CurMem, c, 0, 0, {PTE_U, PTE_P, PTE_OTHER}, p, FALSE))
      /\ sys_page_alloc(envs, CurMem, c, 0, 0, {PTE_U, PTE_P, PTE_OTHER}, p, FALSE).ret = -E_INVAL
      /\ page_lookup(CurMem, envs[c].env_pgdir, 0).pg # NoPage
      /\ sys_page_map(envs, CurMem, c, 0, 0, 0, UTOP, {PTE_U, PTE_P}, FALSE).ret = -E_INVAL
      /\ sys_page_map(envs, CurMem, c, 0, 1, 0, 0, {PTE_U, PTE_P}, FALSE).ret = -E_INVAL
      /\ sys_page_alloc(envs, CurMem, c, 0, UTOP - PGSIZE,
                        {PTE_U, PTE_P, PTE_W, PTE_AVAIL}, p, FALSE).ret = 0

\* C5: sys_ipc_try_send to an existing target with srcva < UTOP returns
\* -E_INVAL when srcva is unaligned, perm is invalid, srcva is unmapped in the
\* sender or perm asks for PTE_W on a read-only source mapping, whatever the
\* state of the target; no message is then delivered or parked and no page
\* is mapped.
C5_SendArgsValidated ==
    \A c \in kern, envid \in EnvidInputs, value \in Values, srcva \in VAInputs :
      \A perm \in SendPerms(srcva), ptfail \in PtFailInputs :
        LET t == envid2env(envs, c, envid, FALSE)
            r == sys_ipc_try_send(envs, CurMem, c, envid, value, srcva, perm, ptfail)
            src == page_lookup(CurMem, envs[c].env_pgdir, srcva)
        IN (/\ t # NoEnv
            /\ srcva < UTOP
            /\ \/ srcva % PGSIZE # 0
               \/ BadPerm(perm)
               \/ src.pg = NoPage
               \/ (PTE_W \in perm /\ PTE_W \notin src.perm))
           => /\ r.ret = -E_INVAL
              /\ r.out = "ret"
              /\ r.mem = CurMem
              /\ \A i \in Slots :
                   /\ r.envs[i].env_status = envs[i].env_status
                   /\ r.envs[i].env_ipc_recving = envs[i].env_ipc_recving
                   /\ r.envs[i].env_ipc_from = envs[i].env_ipc_from
                   /\ r.envs[i].env_ipc_value = envs[i].env_ipc_value
                   /\ r.envs[i].env_ipc_pending_envid = envs[i].env_ipc_pending_envid
                   /\ r.envs[i].env_ipc_pending_value = envs[i].env_ipc_pending_value
                   /\ r.envs[i].env_tf = envs[i].env_tf

\* C5 witness: a sender in the kernel, a target R blocked in a receive that
\* passed dstva >= UTOP and a target N that is not receiving; a send that
\* asks for PTE_W on the sender's read-only page is refused for both.
C5_Witness ==
    \E c \in kern, R \in Slots, N \in Slots :
      /\ BlockedInRecv(R) /\ pend[R].va >= UTOP
      /\ N # c /\ envs[N].env_status = ENV_RUNNING /\ envs[N].env_ipc_recving = 0
      /\ page_lookup(CurMem, envs[c].env_pgdir, 0).pg # NoPage
      /\ PTE_W \notin page_lookup(CurMem, envs[c].env_pgdir, 0).perm
      /\ sys_ipc_try_send(envs, CurMem, c, envs[R].env_id, 7, 0,
                          {PTE_P, PTE_U, PTE_W}, FALSE).ret = -E_INVAL
      /\ sys_ipc_try_send(envs, CurMem, c, envs[N].env_id, 7, 0,
                          {PTE_P, PTE_U, PTE_W}, FALSE).ret = -E_INVAL

\* C6: sys_page_map never grants PTE_W on a source mapping without PTE_W: such
\* a call returns -E_INVAL and leaves the destination mapping as it was; a
\* call that succeeds leaves source and destination on the same physical page
\* with the destination permission equal to perm.
C6_NoWriteEscalation ==
    \A c \in kern, srcenvid \in EnvidInputs, srcva \in VAInputs :
      \A dstenvid \in EnvidInputs, dstva \in VAInputs, perm \in PermInputs :
        \A ptfail \in PtFailInputs :
          LET se == envid2env(envs, c, srcenvid, TRUE)
              de == envid2env(envs, c, dstenvid, TRUE)
              r == sys_page_map(envs, CurMem, c, srcenvid, srcva, dstenvid, dstva, perm, ptfail)
          IN (se # NoEnv /\ de # NoEnv) =>
               LET sd == envs[se].env_pgdir
                   dd == envs[de].env_pgdir
                   src == page_lookup(CurMem, sd, srcva)
               IN /\ (PTE_W \in perm /\ src.pg # NoPage /\ PTE_W \notin src.perm)
                       => /\ r.ret = -E_INVAL
                          /\ r.mem.pgdirs[dd] = pgdirs[dd]
                  /\ r.ret = 0
                       => /\ src.pg # NoPage
                          /\ r.mem.pgdirs[dd][dstva] = [pg |-> src.pg, perm |-> perm]
                          /\ r.mem.pgdirs[sd][srcva].pg = src.pg
                          /\ PTE_W \in perm => PTE_W \in src.perm

\* C6 witness: the env of slot 1, whose page at 0 is read-only, is in the
\* kernel: mapping that page writable at the next page is refused, mapping it
\* read-only there succeeds.
C6_Witness ==
    /\ 1 \in kern
    /\ page_lookup(CurMem, envs[1].env_pgdir, 0).perm = {PTE_P, PTE_U}
    /\ sys_page_map(envs, CurMem, 1, 0, 0, 0, PGSIZE, {PTE_P, PTE_U, PTE_W}, FALSE).ret = -E_INVAL
    /\ sys_page_map(envs, CurMem, 1, 0, 0, 0, PGSIZE, {PTE_P, PTE_U}, FALSE).ret = 0

(***************************************************************************)
(* The claims about environments.                                          *)
(***************************************************************************)
\* C7: a sys_exofork that succeeds returns a positive env id other than the
\* caller's; the env with that id has the caller as parent, is NOT_RUNNABLE,
\* has the caller's env_break and the caller's register frame of syscall
\* entry except for a zero accumulator; no other Env changes.  When env_alloc
\* fails, its negative error is returned and no Env changes.
C7_ExoforkChild ==
    \A c \in kern, a \in EnvAllocChoices :
      LET r == sys_exofork(envs, CurMem, c, a[1], a[2], a[3]) IN
      IF a[1] = NoEnv
      THEN r.ret = -a[3] /\ r.ret < 0 /\ r.envs = envs
      ELSE /\ r.ret > 0
           /\ r.ret # envs[c].env_id
           /\ \E i \in Slots :
                /\ r.envs[i].env_id = r.ret
                /\ \A j \in Slots \ {i} : r.envs[j] = envs[j] /\ envs[j].env_id # r.ret
                /\ r.envs[i].env_parent_id = envs[c].env_id
                /\ r.envs[i].env_status = ENV_NOT_RUNNABLE
                /\ r.envs[i].env_break = envs[c].env_break
                /\ r.envs[i].env_tf = [envs[c].env_tf EXCEPT !.reg_eax = 0]

\* C7 witness: sys_exofork has returned a child id to its caller; the child
\* is NOT_RUNNABLE with a zero accumulator, and the frame the caller saved at
\* entry, which the child otherwise shares, has a nonzero accumulator.
C7_Witness ==
    /\ last.op = "exofork" /\ last.ret > 0
    /\ \E i \in Slots :
         /\ envs[i].env_id = last.ret
         /\ envs[i].env_parent_id = envs[last.caller].env_id
         /\ envs[i].env_status = ENV_NOT_RUNNABLE
         /\ envs[i].env_tf.reg_eax = 0
         /\ envs[i].env_tf.tf_eip = envs[last.caller].env_tf.tf_eip
         /\ envs[last.caller].env_tf.reg_eax # 0

\* C8: for every envid sys_exec_commit accepts, the caller is afterwards
\* still allocated and is the env that resumes, with the donor's register
\* frame, upcall, env_break and page directory; the donor is FREE and the
\* caller's former page directory went down with it.  When the lookup fails
\* the call returns -E_BAD_ENV and nothing changes.
C8_ExecCommitCallerSurvives ==
    \A c \in kern, envid \in EnvidInputs :
      LET t == envid2env(envs, c, envid, TRUE)
          r == sys_exec_commit(envs, CurMem, c, envid)
      IN IF t = NoEnv
         THEN r.ret = -E_BAD_ENV /\ r.out = "ret" /\ NoChange(r)
         ELSE /\ r.envs[c].env_status # ENV_FREE
              /\ r.out = "run"
              /\ r.envs[c].env_tf = envs[t].env_tf
              /\ r.envs[c].env_pgfault_upcall = envs[t].env_pgfault_upcall
              /\ r.envs[c].env_break = envs[t].env_break
              /\ r.envs[c].env_pgdir = envs[t].env_pgdir
              /\ r.mem.pgdirs[envs[t].env_pgdir] = pgdirs[envs[t].env_pgdir]
              /\ t # c => /\ r.envs[t].env_status = ENV_FREE
                          /\ r.mem.pgdirs[envs[c].env_pgdir] = EmptyPgdir

(***************************************************************************)
(* The claim about the big kernel lock.                                    *)
(***************************************************************************)
\* C10: system calls run under the big kernel lock.  A caller is inside the
\* dispatcher only while the lock is held, at most one at a time; while it is
\* inside the lock has not been released, and once the call has left the
\* kernel, whichever way (return, sched_yield, env_run), the lock is free and
\* has been released exactly once since the call entered.
C10_BigKernelLock ==
    /\ Cardinality(kern) <= 1
    /\ (kern # {}) <=> (lock = 1)
    /\ kern # {} => unlocks = 0
    /\ last.op # "none" => (kern = {} /\ lock = 0 /\ unlocks = 1)

\* C10 witness: sys_exec_commit has left the kernel through env_run, without
\* returning to sysenter, and the lock has been released once.
C10_Witness ==
    /\ last.op = "exec_commit" /\ last.out = "run"
    /\ envs[last.caller].env_status = ENV_RUNNING
    /\ lock = 0 /\ unlocks = 1 /\ kern = {}

\* C11: sys_env_set_status writes the target's status only for ENV_RUNNABLE
\* and ENV_NOT_RUNNABLE; any other status gives -E_INVAL and a failed lookup
\* -E_BAD_ENV, both with nothing changed; so the call never puts an env into
\* ENV_FREE, ENV_DYING or ENV_RUNNING (or a value outside the enum).
C11_SetStatusOnlyRunnable ==
    \A c \in kern, envid \in EnvidInputs, status \in StatusInputs :
      LET t == envid2env(envs, c, envid, TRUE)
          r == sys_env_set_status(envs, CurMem, c, envid, status)
      IN /\ r.out = "ret"
         /\ r.mem = CurMem
         /\ t = NoEnv => (r.ret = -E_BAD_ENV /\ r.envs = envs)
         /\ (t # NoEnv /\ status \notin {ENV_RUNNABLE, ENV_NOT_RUNNABLE})
              => (r.ret = -E_INVAL /\ r.envs = envs)
         /\ (t # NoEnv /\ status \in {ENV_RUNNABLE, ENV_NOT_RUNNABLE})
              => (r.ret = 0 /\ r.envs = [envs EXCEPT ![t].env_status = status])
         /\ \A i \in Slots :
              r.envs[i].env_status # envs[i].env_status
                => r.envs[i].env_status \in {ENV_RUNNABLE, ENV_NOT_RUNNABLE}

\* C11 witness: a parent in the kernel with a NOT_RUNNABLE child: the call
\* makes the child RUNNABLE, refuses ENV_FREE, ENV_RUNNING and ENV_DYING for
\* it, and refuses an env the caller has no permission on.
C11_Witness ==
    \E c \in kern, t \in Slots, o \in Slots :
      /\ t # c /\ o # c
      /\ envs[t].env_status = ENV_NOT_RUNNABLE
      /\ envs[t].env_parent_id = envs[c].env_id
      /\ sys_env_set_status(envs, CurMem, c, envs[t].env_id, ENV_RUNNABLE).envs[t].env_status
           = ENV_RUNNABLE
      /\ \A s \in {ENV_FREE, ENV_RUNNING, ENV_DYING} :
           sys_env_set_status(envs, CurMem, c, envs[t].env_id, s).ret = -E_INVAL
      /\ envs[o].env_status # ENV_FREE
      /\ sys_env_set_status(envs, CurMem, c, envs[o].env_id, ENV_RUNNABLE).ret = -E_BAD_ENV

(***************************************************************************)
(* The claim about sys_env_set_trapframe.                                  *)
(***************************************************************************)
StepEnvSetTrapframe ==
    \E c \in kern, envid \in EnvidInputs, tf \in TfInputs, readable \in BOOLEAN :
        SysEnvSetTrapframe(c, envid, tf, readable)

CallsTrap == 2   \* system calls made in one run of SpecTrap

InitTrap == InitEnvs(CallsTrap, {0, 1})

NextTrap ==
    \/ StepSysenter
    \/ StepEnvSetTrapframe
    \/ StepExofork

SpecTrap == InitTrap /\ [][NextTrap]_vars

\* The frame resumes in user mode: every selector has privilege level 3 and
\* interrupts are enabled.
ResumesInUserMode(tf) ==
    /\ tf.tf_cs % 4 = 3 /\ tf.tf_ds % 4 = 3 /\ tf.tf_es % 4 = 3 /\ tf.tf_ss % 4 = 3
    /\ FL_IF \in tf.tf_eflags

\* C12: after a successful sys_env_set_trapframe the target's saved frame has
\* tf_cs = GD_UT|3, tf_ds = tf_es = tf_ss = GD_UD|3, FL_IF set and every other
\* field (and flag) as the user supplied it; and no allocated env ever has a
\* saved frame that would resume below privilege level 3 or with interrupts
\* off.
C12_TrapframeForcedToUser ==
    /\ \A c \in kern, envid \in EnvidInputs, tf \in TfInputs :
         LET t == envid2env(envs, c, envid, TRUE)
             r == sys_env_set_trapframe(envs, CurMem, c, envid, tf, TRUE)
         IN (t # NoEnv /\ r.ret = 0) =>
              LET f == r.envs[t].env_tf IN
              /\ f.tf_cs = GD_UT + 3
              /\ f.tf_ds = GD_UD + 3 /\ f.tf_es = GD_UD + 3 /\ f.tf_ss = GD_UD + 3
              /\ FL_IF \in f.tf_eflags
              /\ f.tf_eflags \ {FL_IF} = tf.tf_eflags \ {FL_IF}
              /\ f.reg_eax = tf.reg_eax /\ f.tf_eip = tf.tf_eip
              /\ ResumesInUserMode(f)
    /\ \A i \in Slots : envs[i].env_status # ENV_FREE => ResumesInUserMode(envs[i].env_tf)

\* C12 witness: sys_env_set_trapframe has succeeded with a frame that asked
\* for another code selector: some env holds a program counter only the
\* frames in TfInputs have, next to the selectors the kernel forced.
C12_Witness ==
    /\ last.op = "env_set_trapframe" /\ last.ret = 0 /\ last.out = "ret"
    /\ \E i \in Slots, tf \in TfInputs :
         /\ tf.tf_cs # GD_UT + 3 /\ FL_IF \notin tf.tf_eflags
         /\ envs[i].env_tf.tf_eip = tf.tf_eip
         /\ envs[i].env_tf.tf_cs = GD_UT + 3
         /\ FL_IF \in envs[i].env_tf.tf_eflags

(***************************************************************************)
(* The claim about sys_sbrk.                                               *)
(***************************************************************************)
StepSbrk == \E c \in kern, inc \in IncInputs : SysSbrk(c, inc)

CallsSbrk == 3   \* system calls made in one run of SpecSbrk

InitSbrk == InitEnvs(CallsSbrk, {0, 1, 2})

NextSbrk ==
    \/ StepSysenter
    \/ StepSbrk

SpecSbrk == InitSbrk /\ [][NextSbrk]_vars

\* inc rounded up to a multiple of PGSIZE, without wraparound.
RoundUpExact(inc) == ((inc + PGSIZE - 1) \div PGSIZE) * PGSIZE

\* C13: with r = inc rounded up to a page multiple without wraparound,
\* sys_sbrk(inc) refuses when env_break + r does not fit in 32 bits or
\* exceeds ULIM: the caller is destroyed, nothing is allocated, env_break
\* does not advance.  Otherwise it maps [env_break, env_break + r), advances
\* env_break by r and returns it; sys_sbrk(0) returns env_break unchanged.  No
\* env_break ever exceeds ULIM.
C13_SbrkRange ==
    /\ \A c \in kern, inc \in IncInputs :
         LET r == RoundUpExact(inc)
             break == envs[c].env_break
             s == sys_sbrk(envs, CurMem, c, inc)
         IN /\ (break + r >= Word \/ break + r > ULIM)
                 => /\ s.out = "yield"
                    /\ s.envs[c].env_status = ENV_FREE
                    /\ page_free_list \subseteq s.mem.page_free_list
            /\ (break + r < Word /\ break + r <= ULIM /\ s.out # "panic")
                 => /\ s.out = "ret" /\ s.ret = break + r
                    /\ s.envs = [envs EXCEPT ![c].env_break = break + r]
                    /\ \A va \in RegionPages(break, r) :
                         s.mem.pgdirs[envs[c].env_pgdir][va].pg # NoPage
            /\ inc = 0 => (s.ret = break /\ s.envs = envs /\ s.mem = CurMem)
    /\ \A i \in Slots : envs[i].env_break <= ULIM

(***************************************************************************)
(* The claim about panics.                                                 *)
(***************************************************************************)
StepCputs ==
    \E c \in kern, str \in PtrInputs, readable \in BOOLEAN :
        SysCputs(c, str, readable)

StepEnvSetPgfaultUpcall ==
    \E c \in kern, envid \in EnvidInputs, func \in PtrInputs :
        SysEnvSetPgfaultUpcall(c, envid, func)

CallsPanic == 3   \* system calls made in one run of SpecPanic

InitPanic == InitEnvs(CallsPanic, {0, 1, 2})

NextPanic ==
    \/ StepSysenter
    \/ StepCputs
    \/ StepEnvSetPgfaultUpcall

SpecPanic == InitPanic /\ [][NextPanic]_vars

\* C14: no argument values drive the kernel into a panic.  sys_cputs, for
\* every pointer (null included), returns or destroys only the caller;
\* sys_env_set_pgfault_upcall, for every envid and entry point, returns, and
\* a null entry point is rejected with an error and every env unchanged.
C14_NoUserPanic ==
    /\ last.out # "panic"
    /\ \A c \in kern, str \in PtrInputs, readable \in BOOLEAN :
         LET r == sys_cputs(envs, CurMem, c, str, readable)
         IN \/ r.out = "ret" /\ r.envs = envs
            \/ /\ r.out = "yield"
               /\ \A i \in Slots \ {c} : r.envs[i] = envs[i]
    /\ \A c \in kern, envid \in EnvidInputs, func \in PtrInputs :
         LET r == sys_env_set_pgfault_upcall(envs, CurMem, c, envid, func)
         IN /\ r.out = "ret"
            /\ func = 0 => (r.ret < 0 /\ r.envs = envs)

(***************************************************************************)
(* The claims about blocked envs.                                          *)
(***************************************************************************)
\* C15: each allocated env is in at most one blocked role, and an env with
\* env_ipc_recving = 1 or env_ipc_pending_envid # 0 is NOT_RUNNABLE.
C15_OneBlockedRole ==
    \A e \in Slots :
        envs[e].env_status # ENV_FREE =>
            /\ ~(envs[e].env_ipc_recving = 1 /\ envs[e].env_ipc_pending_envid # 0)
            /\ (envs[e].env_ipc_recving = 1 \/ envs[e].env_ipc_pending_envid # 0)
                 => envs[e].env_status = ENV_NOT_RUNNABLE

CallsWake == 2   \* system calls made in one run of SpecWake

\* The rendezvous with memory to spare and with memory exhausted.
InitWake == InitKernel(CallsWake, {0, 1, 2}) /\ (InitMem(2) \/ InitMemFull)

NextWake ==
    \/ StepSysenter
    \/ StepSched
    \/ StepIpcTrySend
    \/ StepIpcRecv

SpecWake == InitWake /\ [][NextWake]_vars

\* The env in slot i as the wake-up leaves it: accumulator 0, RUNNABLE, no
\* blocking marker.
Woken(E, i) ==
    /\ E[i].env_tf.reg_eax = 0
    /\ E[i].env_status = ENV_RUNNABLE
    /\ E[i].env_ipc_recving = 0
    /\ E[i].env_ipc_pending_envid = 0

\* What sys_ipc_try_send guarantees when it wakes a receive-blocked env.
SendWakes ==
    \A c \in kern, envid \in EnvidInputs, value \in Values, srcva \in VAInputs :
      \A perm \in SendPerms(srcva), ptfail \in PtFailInputs :
        LET r == sys_ipc_try_send(envs, CurMem, c, envid, value, srcva, perm, ptfail)
            t == envid2env(envs, c, envid, FALSE)
        IN (t # NoEnv /\ envs[t].env_ipc_recving = 1 /\ r.ret = 0) =>
             r.out = "ret" /\ Woken(r.envs, t)

\* C16 as stated: a send that wakes a receive-blocked env and a receive that
\* wakes a parked sender leave the woken env with accumulator 0, RUNNABLE and
\* its blocking marker cleared; a receiver that finds a parked sender returns
\* 0 without blocking and without setting env_ipc_recving.
C16_WakeupContract_Stated ==
    /\ SendWakes
    /\ \A c \in kern, dstva \in MapVAs, ptfail \in PtFailInputs :
         LET r == sys_ipc_recv(envs, CurMem, c, dstva, ptfail)
         IN ParkedFor(envs, c) # {} =>
              /\ r.ret = 0 /\ r.out = "ret"
              /\ Woken(r.envs, FirstParked(envs, c))
              /\ r.envs[c].env_ipc_recving = 0
              /\ r.envs[c].env_status = envs[c].env_status

\* C16: the same, except that a receiver whose page_insert of the parked page
\* fails returns -E_NO_MEM, still without blocking, and wakes nobody.
C16_WakeupContract ==
    /\ SendWakes
    /\ \A c \in kern, dstva \in MapVAs, ptfail \in PtFailInputs :
         LET r == sys_ipc_recv(envs, CurMem, c, dstva, ptfail)
             s == FirstParked(envs, c)
         IN ParkedFor(envs, c) # {} =>
              /\ r.out = "ret"
              /\ r.envs[c].env_ipc_recving = 0
              /\ r.envs[c].env_status = envs[c].env_status
              /\ \/ r.ret = 0 /\ Woken(r.envs, s)
                 \/ /\ r.ret = -E_NO_MEM
                    /\ envs[s].env_ipc_pending_page # NoPage /\ dstva < UTOP
                    /\ r.envs[s] = envs[s]
                    /\ r.mem = CurMem

\* C16 witness: a receiver in the kernel finds a sender parked for it whose
\* saved accumulator is not 0, and the receive wakes it.
C16_Witness ==
    \E c \in kern, s \in Slots :
      /\ ParkedInSend(s) /\ s \in ParkedFor(envs, c) /\ s = FirstParked(envs, c)
      /\ envs[s].env_tf.reg_eax # 0
      /\ LET r == sys_ipc_recv(envs, CurMem, c, 0, FALSE)
         IN r.ret = 0 /\ Woken(r.envs, s) /\ r.envs[c].env_ipc_from = envs[s].env_id

\* C17: whenever sys_ipc_try_send accepts envid and the target is not
\* receiving, the caller is parked NOT_RUNNABLE with env_ipc_pending_envid the
\* (nonzero) env_id of the env that envid resolved to and
\* env_ipc_pending_value the value passed, so that the target's later
\* sys_ipc_recv finds it among the senders parked for it.
C17_ParkedForResolvedTarget ==
    \A c \in kern, envid \in EnvidInputs, value \in Values, srcva \in VAInputs :
      \A perm \in SendPerms(srcva), ptfail \in PtFailInputs :
        LET r == sys_ipc_try_send(envs, CurMem, c, envid, value, srcva, perm, ptfail)
            t == envid2env(envs, c, envid, FALSE)
        IN (t # NoEnv /\ r.out = "yield") =>
             /\ r.envs[c].env_status = ENV_NOT_RUNNABLE
             /\ r.envs[c].env_ipc_pending_value = value
             /\ r.envs[c].env_ipc_pending_envid = envs[t].env_id
             /\ r.envs[c].env_ipc_pending_envid # 0
             /\ c \in ParkedFor(r.envs, t)

(***************************************************************************)
(* The claim about several parked senders.                                 *)
(***************************************************************************)
CallsPark == 2   \* system calls made in one run of SpecPark

\* Slot 1 as its sys_ipc_try_send(id of slot 2, 9, srcva, perm) left it when
\* slot 2 was not receiving: parked with the value and, if pg is a page, with
\* its read-only page.
ParkedSender(pg) ==
    [[RootEnv(1, 1) EXCEPT !.env_parent_id = NENV]
        EXCEPT !.env_status = ENV_NOT_RUNNABLE,
               !.env_tf.reg_eax = 1,
               !.env_ipc_pending_envid = NENV + 2,
               !.env_ipc_pending_value = 9,
               !.env_ipc_pending_page = pg,
               !.env_ipc_pending_perm = IF pg = NoPage THEN {} ELSE {PTE_P, PTE_U}]

\* The kernel after slot 1 has parked a message for slot 2.
InitPark ==
    /\ \E pg \in {NoPage, 2} :
         /\ envs = [i \in Slots |->
                      IF i = 0 THEN RootEnv(0, 0)
                      ELSE IF i = 1 THEN ParkedSender(pg)
                      ELSE IF i = 2 THEN RootEnv(2, 2)
                      ELSE ZeroEnv]
         /\ pend = [i \in Slots |->
                      IF i = 1
                      THEN [op |-> "ipc_try_send", envid |-> NENV + 2, value |-> 9,
                            va |-> IF pg = NoPage THEN UTOP ELSE 0,
                            perm |-> IF pg = NoPage THEN {} ELSE {PTE_P, PTE_U}]
                      ELSE NoCall]
    /\ lock = 0
    /\ kern = {}
    /\ unlocks = 0
    /\ last = NoLast
    /\ budget = CallsPark
    /\ InitMem(2)

NextPark ==
    \/ StepSysenter
    \/ StepSched
    \/ StepIpcTrySend
    \/ StepIpcRecv

SpecPark == InitPark /\ [][NextPark]_vars

StepMapKernelPage ==
    \E c \in kern, kpage \in Pages \cup {NoPage}, va \in VAInputs :
        \E ptfail \in PtFailInputs : SysMapKernelPage(c, kpage, va, ptfail)

CallsKmap == 2   \* system calls made in one run of SpecKmap

InitKmap == InitEnvs(CallsKmap, {0, 1, 2})

NextKmap ==
    \/ StepSysenter
    \/ StepMapKernelPage
    \/ StepPageAlloc

SpecKmap == InitKmap /\ [][NextKmap]_vars

\* C19: every mapping in an env's page directory is at a page-aligned
\* address below UTOP.
C19_MappingsBelowUTOP ==
    \A d \in PgdirIds, va \in MapVAs :
        pgdirs[d][va].pg # NoPage => (va < UTOP /\ va % PGSIZE = 0)

CallsFree == 2   \* system calls made in one run of SpecFree

InitFree == InitEnvs(CallsFree, {0, 1, 2})

NextFree ==
    \/ StepSysenter
    \/ StepSched
    \/ StepIpcTrySend
    \/ StepIpcRecv
    \/ StepPageUnmap

SpecFree == InitFree /\ [][NextFree]_vars

\* C20: a page is reclaimable only when nothing refers to it.  No page on the
\* free list is mapped in any page directory, and the page a parked sender
\* holds in env_ipc_pending_page is not on the free list.
C20_FreePagesUnreferenced ==
    /\ \A d \in PgdirIds, va \in MapVAs :
         pgdirs[d][va].pg # NoPage => pgdirs[d][va].pg \notin page_free_list
    /\ \A s \in Slots :
         (/\ envs[s].env_status # ENV_FREE
          /\ envs[s].env_ipc_pending_envid # 0
          /\ envs[s].env_ipc_pending_page # NoPage)
           => envs[s].env_ipc_pending_page \notin page_free_list

(***************************************************************************)
(* The claim about the stability of a delivered message.                   *)
(***************************************************************************)
CallsStable == 2   \* system calls made in one run of SpecStable

\* Slot 2 as its sys_ipc_recv(dstva) left it when no sender was parked for
\* it: blocked, marked as receiving.
BlockedReceiver(dstva) ==
    [RootEnv(2, 2) EXCEPT !.env_status = ENV_NOT_RUNNABLE,
                          !.env_tf.reg_eax = 1,
                          !.env_ipc_recving = 1,
                          !.env_ipc_dstva = IF dstva < UTOP THEN dstva ELSE 0]

\* The kernel with half a rendezvous done: slot 1 has parked a message for
\* slot 2, or slot 2 is blocked in a receive.
InitStable ==
    /\ \/ \E pg \in {NoPage, 2} :
            /\ envs = [i \in Slots |->
                         IF i = 0 THEN RootEnv(0, 0)
                         ELSE IF i = 1 THEN ParkedSender(pg)
                         ELSE IF i = 2 THEN RootEnv(2, 2)
                         ELSE ZeroEnv]
            /\ pend = [i \in Slots |->
                         IF i = 1
                         THEN [op |-> "ipc_try_send", envid |-> NENV + 2, value |-> 9,
                               va |-> IF pg = NoPage THEN UTOP ELSE 0,
                               perm |-> IF pg = NoPage THEN {} ELSE {PTE_P, PTE_U}]
                         ELSE NoCall]
       \/ \E dstva \in {0, UTOP} :
            /\ envs = [i \in Slots |->
                         IF i = 0 THEN RootEnv(0, 0)
                         ELSE IF i = 1 THEN [RootEnv(1, 1) EXCEPT !.env_parent_id = NENV]
                         ELSE IF i = 2 THEN BlockedReceiver(dstva)
                         ELSE ZeroEnv]
            /\ pend = [i \in Slots |->
                         IF i = 2
                         THEN [op |-> "ipc_recv", envid |-> 0, value |-> 0,
                               va |-> dstva, perm |-> {}]
                         ELSE NoCall]
    /\ lock = 0
    /\ kern = {}
    /\ unlocks = 0
    /\ last = NoLast
    /\ budget = CallsStable
    /\ InitMem(2)

NextStable ==
    \/ StepSysenter
    \/ StepSched
    \/ StepIpcTrySend
    \/ StepIpcRecv
    \/ StepEnvSetStatus
    \/ StepEnvDestroy
    \/ StepExecCommit

SpecStable == InitStable /\ [][NextStable]_vars

\* The message env R holds: sender, value and perm of the last rendezvous.
Message(E, R) ==
    <<E[R].env_ipc_from, E[R].env_ipc_value, E[R].env_ipc_perm>>

\* The step is a system call of slot R itself.
OwnCall(R) == R \in kern /\ R \notin kern'

\* The step completes a rendezvous that delivers a message to R: a send by
\* another env that found R receiving, or R's own receive that harvested a
\* parked sender.
DeliversTo(R) ==
    \/ /\ last'.op = "ipc_try_send" /\ last'.ret = 0 /\ last'.out = "ret"
       /\ last'.caller # R /\ envs[R].env_ipc_recving = 1
       /\ envs'[R].env_ipc_from = envs[last'.caller].env_id
    \/ /\ last'.op = "ipc_recv" /\ last'.ret = 0 /\ last'.out = "ret"
       /\ last'.caller = R /\ OwnCall(R)

\* C21: a delivered message is stable until the receiver asks for the next
\* one.  A rendezvous leaves R not receiving; R stays so until its own
\* sys_ipc_recv; and while R is not receiving no step of another env changes
\* env_ipc_from, env_ipc_value or env_ipc_perm of R (a send aimed at R parks).
C21_DeliveredMessageStable ==
    [][\A R \in Slots :
         (envs[R].env_status # ENV_FREE /\ envs'[R].env_status # ENV_FREE) =>
           /\ DeliversTo(R) => envs'[R].env_ipc_recving = 0
           /\ (envs[R].env_ipc_recving = 0 /\ envs'[R].env_ipc_recving = 1)
                => (OwnCall(R) /\ last'.op = "ipc_recv" /\ last'.caller = R)
           /\ (envs[R].env_ipc_recving = 0 /\ ~OwnCall(R))
                => Message(envs', R) = Message(envs, R)]_vars

\* C21 witness: R holds a delivered message and is not receiving; another
\* env, in the kernel, sends R a different value: the send parks and R's
\* message is as it was.
C21_Witness ==
    \E c \in kern, R \in Slots :
      /\ R # c /\ envs[R].env_ipc_from # 0 /\ envs[R].env_ipc_recving = 0
      /\ envs[R].env_status \in {ENV_RUNNABLE, ENV_RUNNING}
      /\ \E v \in Values :
           /\ v # envs[R].env_ipc_value
           /\ LET r == sys_ipc_try_send(envs, CurMem, c, envs[R].env_id, v, UTOP, {}, FALSE)
              IN r.out = "yield" /\ Message(r.envs, R) = Message(envs, R)

====
